---------------------------- MODULE Spec2Model ----------------------------
(***************************************************************************)
(* A model of jsonl_analyzer.py: schema inference over a sample of a JSONL *)
(* file (infer_schema), table creation (create_table), the chunked loading *)
(* pass (process_jsonl with its nested flatten_json) and the driver main.  *)
(*                                                                         *)
(* Text is modelled as sequences of characters (one-character strings,     *)
(* a few multi-character atoms such as "true"): a Python str is a          *)
(* Seq(STRING).  A decoded JSON value is a record [t |-> type(value).      *)
(* __name__, v |-> payload]; a dict keeps its insertion order and is a     *)
(* sequence of <<key, value>> pairs.                                       *)
(*                                                                         *)
(* Input lines are records (JSON objects), malformed text and blank lines. *)
(* A line holding a JSON value that is not an object is not a record and   *)
(* is not among the inputs; nor are keys that contain the separator ".".   *)
(* The sink (DuckDB) is external: each of its calls commits or raises.     *)
(***************************************************************************)
EXTENDS Integers, Sequences, FiniteSets, TLC

VARIABLES
    mode,        \* which entry point runs: "main", "infer" (infer_schema + create_table), "fn"
    pc,          \* position of the run
    lines,       \* the input file: a sequence of lines (each a text, without its newline)
    chunk_size,  \* --chunk-size
    max_depth,   \* --max-depth: None or Some(d)
    dry_run,     \* --dry-run
    sample_size, \* infer_schema's sample_size
    caller,      \* who called infer_schema: "process_jsonl" or "main"
    i,           \* infer_schema: lines taken from enumerate(f) so far
    schema,      \* infer_schema: the defaultdict(set), in insertion order
    walked,      \* history: positions (1-based) of the lines handed to process_item
    attempted,   \* history: positions (1-based) of the lines handed to json.loads by infer_schema
    table,       \* the sink's table: None, or Some(columns) once CREATE TABLE ran
    row,         \* process_jsonl: rows taken from the csv reader so far
    data,        \* process_jsonl: the record last decoded (fn mode: the input record)
    flattened,   \* process_jsonl: the flat record last produced
    chunks,      \* process_jsonl: the current batch (a sequence of JSON texts)
    sink,        \* the batches the sink committed, in order
    inserts,     \* history: bulk inserts issued to the sink (committed or rejected)
    loaded,      \* history: positions (1-based) of the rows whose record was appended to chunks
    warned,      \* history: positions (1-based) of the rows process_jsonl warned about
    todo,        \* main: fields still to report
    error,       \* the exception in flight or handled ("none" when there is none)
    logged       \* what main logged: subset of {"error", "complete", "dry"}

vars == <<mode, pc, lines, chunk_size, max_depth, dry_run, sample_size, caller, i,
          schema, walked, attempted, table, row, data, flattened, chunks, sink,
          inserts, loaded, warned, todo, error, logged>>

----------------------------------------------------------------------------
(* Bounds of the model *)

MaxLines == 3
MaxChunk == 2
MaxSample == 3

(* Python's None and a present value *)
None == {}
Some(x) == {x}
TheOne(s) == CHOOSE x \in s : TRUE

----------------------------------------------------------------------------
(* Decoded JSON values *)

JInt(n) == [t |-> "int", v |-> n]
\* the float n + 0.5
JFloat(n) == [t |-> "float", v |-> n]
JStr(s) == [t |-> "str", v |-> s]
JBool(b) == [t |-> "bool", v |-> b]
JNull == [t |-> "NoneType", v |-> 0]
JList(s) == [t |-> "list", v |-> s]
JDict(kv) == [t |-> "dict", v |-> kv]

Digits == <<"0", "1", "2", "3", "4", "5", "6", "7", "8", "9">>

RECURSIVE Flat(_)
\* the concatenation of a sequence of texts
Flat(ss) == IF ss = <<>> THEN <<>> ELSE Head(ss) \o Flat(Tail(ss))

\* json.dumps of a str: quotes and backslashes are escaped
EscapeStr(s) == Flat([n \in 1..Len(s) |->
                       IF s[n] = "\"" \/ s[n] = "\\" THEN <<"\\", s[n]>> ELSE <<s[n]>>])

RECURSIVE dumps(_)
RECURSIVE dumps_list(_, _)
RECURSIVE dumps_dict(_, _)
\* json.dumps with the default separators ", " and ": "
dumps(x) ==
    CASE x.t = "int" -> <<Digits[x.v + 1]>>
      [] x.t = "float" -> <<Digits[x.v + 1], ".", "5">>
      [] x.t = "str" -> <<"\"">> \o EscapeStr(x.v) \o <<"\"">>
      [] x.t = "bool" -> IF x.v THEN <<"true">> ELSE <<"false">>
      [] x.t = "NoneType" -> <<"null">>
      [] x.t = "list" -> <<"[">> \o dumps_list(x.v, 1) \o <<"]">>
      [] x.t = "dict" -> <<"{">> \o dumps_dict(x.v, 1) \o <<"}">>

dumps_list(s, n) ==
    IF n > Len(s) THEN <<>>
    ELSE (IF n > 1 THEN <<",", " ">> ELSE <<>>) \o dumps(s[n]) \o dumps_list(s, n + 1)

dumps_dict(kv, n) ==
    IF n > Len(kv) THEN <<>>
    ELSE (IF n > 1 THEN <<",", " ">> ELSE <<>>)
         \o dumps(JStr(kv[n][1])) \o <<":", " ">> \o dumps(kv[n][2])
         \o dumps_dict(kv, n + 1)

RECURSIVE StripWs(_, _, _)
\* a JSON text without the whitespace between its tokens (inside strings it stays)
StripWs(text, n, inStr) ==
    IF n > Len(text) THEN <<>>
    ELSE IF inStr /\ text[n] = "\\" /\ n < Len(text)
         THEN <<text[n], text[n + 1]>> \o StripWs(text, n + 2, inStr)
    ELSE IF text[n] = "\"" THEN <<text[n]>> \o StripWs(text, n + 1, ~inStr)
    ELSE IF ~inStr /\ text[n] = " " THEN StripWs(text, n + 1, inStr)
    ELSE <<text[n]>> \o StripWs(text, n + 1, inStr)

----------------------------------------------------------------------------
(* The records and lines the inputs are drawn from *)

Obj1(k, x) == JDict(<< <<k, x>> >>)
Obj2(k, x, l, y) == JDict(<< <<k, x>>, <<l, y>> >>)

\* {"b": {"c": 2}}
RecBC == Obj1(<<"b">>, Obj1(<<"c">>, JInt(2)))
\* {"a": 1, "b": 2}
RecAB == Obj2(<<"a">>, JInt(1), <<"b">>, JInt(2))
\* {"x": [{"k": 1}]}
RecXK == Obj1(<<"x">>, JList(<<Obj1(<<"k">>, JInt(1))>>))

\* {"a": 1}
RecA == Obj1(<<"a">>, JInt(1))

\* {"a": 1},x : not JSON, though its first csv field is
JunkLine == dumps(RecA) \o <<",", "x">>
NotJsonLine == <<"n", "o", "t", " ", "j", "s", "o", "n">>
BlankLine == <<>>

\* the lines of the files main is run on
MainCorpus == {dumps(RecBC), dumps(RecAB), dumps(RecXK), NotJsonLine, BlankLine, JunkLine}

\* one record per kind at path a, and a nested one
KindRecords == {Obj1(<<"a">>, x) : x \in {JInt(1), JStr(<<"s">>), JFloat(1), JBool(TRUE), JNull,
                                            JList(<<JInt(1), JInt(2)>>), Obj1(<<"b">>, JInt(1))}}

\* the lines of the files infer_schema is run on
InferCorpus == {dumps(r) : r \in KindRecords} \cup {NotJsonLine}

Leaves == {JInt(1), JStr(<<"s">>), JFloat(1), JBool(TRUE), JNull, JList(<<>>),
           JList(<<JInt(1), JInt(2), JInt(3)>>), JList(<<Obj1(<<"k">>, JInt(1))>>),
           JList(<<JInt(1), Obj1(<<"k">>, JInt(1))>>), JDict(<<>>)}
Nested1 == Leaves \cup {Obj1(<<"b">>, x) : x \in Leaves}
Nested2 == Nested1 \cup {Obj1(<<"b">>, Obj1(<<"c">>, x)) : x \in Leaves}

\* the records process_item and flatten_json are applied to
FnRecords == {Obj1(<<"a">>, x) : x \in Nested2}
             \cup {Obj2(<<"a">>, x, <<"c">>, y) : x \in Nested1, y \in Leaves}

DepthOptions == {None, Some(0), Some(1)}

\* every JSON value a modelled text can denote
JsonUniverse == {RecBC, RecAB, RecXK} \cup KindRecords

CompactText == [x \in JsonUniverse |-> StripWs(dumps(x), 1, FALSE)]

JSONDecodeError == [t |-> "JSONDecodeError", v |-> 0]

\* json.loads: the value whose JSON text this is (whitespace between tokens is
\* insignificant), or JSONDecodeError
loads(text) ==
    LET c == StripWs(text, 1, FALSE)
        m == {x \in JsonUniverse : CompactText[x] = c}
    IN IF m = {} THEN JSONDecodeError ELSE TheOne(m)

RECURSIVE csv_fields(_, _, _, _)
\* csv.reader's default dialect on one line: the fields before position n are
\* done, cur is the field being read; st is the reader's state.  A quote opens a
\* quoted field only at the start of a field.
csv_fields(line, n, cur, st) ==
    IF n > Len(line)
    THEN IF st = "start_record" THEN <<>> ELSE <<cur>>
    ELSE LET ch == line[n] IN
         CASE st \in {"start_record", "start_field"} ->
                IF ch = "," THEN <<cur>> \o csv_fields(line, n + 1, <<>>, "start_field")
                ELSE IF ch = "\"" THEN csv_fields(line, n + 1, cur, "in_quoted")
                ELSE csv_fields(line, n + 1, Append(cur, ch), "in_field")
           [] st = "in_field" ->
                IF ch = "," THEN <<cur>> \o csv_fields(line, n + 1, <<>>, "start_field")
                ELSE csv_fields(line, n + 1, Append(cur, ch), "in_field")
           [] st = "in_quoted" ->
                IF ch = "\"" THEN csv_fields(line, n + 1, cur, "quote_in_quoted")
                ELSE csv_fields(line, n + 1, Append(cur, ch), "in_quoted")
           [] st = "quote_in_quoted" ->
                IF ch = "\"" THEN csv_fields(line, n + 1, Append(cur, ch), "in_quoted")
                ELSE IF ch = "," THEN <<cur>> \o csv_fields(line, n + 1, <<>>, "start_field")
                ELSE csv_fields(line, n + 1, Append(cur, ch), "in_field")

\* one row of csv.reader(f): a blank line gives the empty row
csv_row(line) == csv_fields(line, 1, <<>>, "start_record")

----------------------------------------------------------------------------
(* Python dicts, in insertion order: sequences of <<key, value>> pairs *)

HasKey(d, k) == \E n \in 1..Len(d) : d[n][1] = k
Keys(d) == {d[n][1] : n \in 1..Len(d)}
Get(d, k) == d[CHOOSE n \in 1..Len(d) : d[n][1] = k][2]

\* d[k] = x: a key already present keeps its place
DictSet(d, k, x) ==
    IF HasKey(d, k) THEN [n \in 1..Len(d) |-> IF d[n][1] = k THEN <<k, x>> ELSE d[n]]
    ELSE Append(d, <<k, x>>)

RECURSIVE DictUpdate(_, _)
\* d.update(e)
DictUpdate(d, e) ==
    IF e = <<>> THEN d ELSE DictUpdate(DictSet(d, Head(e)[1], Head(e)[2]), Tail(e))

\* schema[key].add(kind) on the defaultdict(set)
SchemaAdd(s, key, kind) ==
    DictSet(s, key, (IF HasKey(s, key) THEN Get(s, key) ELSE {}) \cup {kind})

RECURSIVE RStripDots(_)
\* prefix.rstrip('.')
RStripDots(s) ==
    IF s # <<>> /\ s[Len(s)] = "." THEN RStripDots(SubSeq(s, 1, Len(s) - 1)) ELSE s

\* a variant of DepthExceeded: the limit itself already counts as exceeded
DepthExceededAtLimit(md, current_depth) == md # None /\ current_depth >= TheOne(md)

\* max_depth is not None and current_depth > max_depth
DepthExceeded(md, current_depth) == md # None /\ current_depth > TheOne(md)

\* value and isinstance(value[0], dict), for a list value
FirstIsDict(value) == value.v # <<>> /\ value.v[1].t = "dict"

----------------------------------------------------------------------------
(* infer_schema.process_item and process_jsonl.flatten_json *)

RECURSIVE process_item(_, _, _, _, _)
RECURSIVE process_entries(_, _, _, _, _, _)
\* process_item(item, prefix, current_depth), on the schema s, under max_depth md
process_item(s, item, prefix, current_depth, md) ==
    IF DepthExceeded(md, current_depth) THEN s
    ELSE process_entries(s, item.v, 1, prefix, current_depth, md)

\* the loop over item.items(), from entry n on
process_entries(s, kv, n, prefix, current_depth, md) ==
    IF n > Len(kv) THEN s
    ELSE LET key == kv[n][1]
             value == kv[n][2]
             full_key == prefix \o key
             s1 == IF value.t = "dict"
                   THEN process_item(s, value, full_key \o <<".">>, current_depth + 1, md)
                   ELSE IF value.t = "list"
                   THEN IF FirstIsDict(value)
                        THEN process_item(s, value.v[1], full_key \o <<".">>,
                                          current_depth + 1, md)
                        ELSE SchemaAdd(s, full_key, "array")
                   ELSE SchemaAdd(s, full_key, value.t)
         IN process_entries(s1, kv, n + 1, prefix, current_depth, md)

\* a variant of FlattenList: an empty array is treated as absent
FlattenListDropEmpty(items, new_key, value) ==
    IF value.v = <<>> THEN items ELSE DictSet(items, new_key, JStr(dumps(value)))

\* items[new_key] = json.dumps(value), for a list value
FlattenList(items, new_key, value) == DictSet(items, new_key, JStr(dumps(value)))

RECURSIVE flatten_json(_, _, _, _)
RECURSIVE flatten_entries(_, _, _, _, _, _)
\* flatten_json(data, prefix, current_depth), under max_depth md
flatten_json(d, prefix, current_depth, md) ==
    IF DepthExceeded(md, current_depth) THEN << <<RStripDots(prefix), JStr(dumps(d))>> >>
    ELSE flatten_entries(<<>>, d.v, 1, prefix, current_depth, md)

\* the loop over data.items(), from entry n on
flatten_entries(items, kv, n, prefix, current_depth, md) ==
    IF n > Len(kv) THEN items
    ELSE LET key == kv[n][1]
             value == kv[n][2]
             new_key == prefix \o key
             items1 == IF value.t = "dict"
                       THEN DictUpdate(items, flatten_json(value, new_key \o <<".">>,
                                                           current_depth + 1, md))
                       ELSE IF value.t = "list" THEN FlattenList(items, new_key, value)
                       ELSE DictSet(items, new_key, value)
         IN flatten_entries(items1, kv, n + 1, prefix, current_depth, md)

----------------------------------------------------------------------------
(* create_table *)

\* a variant of sql_type: Integer and Float seen together widen to FLOAT
sql_type_widening(types) ==
    IF types = {"int", "float"} THEN "FLOAT"
    ELSE IF Cardinality(types) = 1
    THEN LET ty == TheOne(types) IN
         CASE ty = "int" -> "INTEGER"
           [] ty = "float" -> "FLOAT"
           [] ty = "bool" -> "BOOLEAN"
           [] OTHER -> "VARCHAR"
    ELSE "VARCHAR"

\* the storage type of one column, from the kinds seen at its path
sql_type(types) ==
    IF Cardinality(types) = 1
    THEN LET ty == TheOne(types) IN
         CASE ty = "str" -> "VARCHAR"
           [] ty = "int" -> "INTEGER"
           [] ty = "float" -> "FLOAT"
           [] ty = "bool" -> "BOOLEAN"
           [] ty = "NoneType" -> "VARCHAR"
           [] ty = "array" -> "VARCHAR"
           [] OTHER -> "VARCHAR"
    ELSE "VARCHAR"

\* the columns of CREATE TABLE data (...), in schema order
Columns(s) == [n \in 1..Len(s) |-> <<s[n][1], sql_type(s[n][2])>>]

----------------------------------------------------------------------------
(* The run *)

DefaultSampleSize == 1000
DefaultChunkSize == 1000

Files(corpus) == UNION {[1..n -> corpus] : n \in 0..MaxLines}

\* a variant of SampleExhausted: the break comes one line late
SampleExhaustedLate(n, size) == n > size

\* i >= sample_size
SampleExhausted(n, size) == n >= size

\* len(chunks) >= chunk_size
ChunkFull(c, size) == Len(c) >= size

\* a variant of Caught: the per-row handler catches every exception
CaughtAny(exc) == TRUE

\* the per-row handler of process_jsonl: except json.JSONDecodeError
Caught(exc) == exc = "JSONDecodeError"

\* what every entry point starts from
Fresh ==
    /\ caller = "none" /\ i = 0 /\ schema = <<>> /\ walked = {} /\ attempted = {}
    /\ table = None /\ row = 0 /\ flattened = None /\ chunks = <<>> /\ sink = <<>>
    /\ inserts = 0 /\ loaded = <<>> /\ warned = {} /\ todo = <<>> /\ error = "none"
    /\ logged = {}

\* main, on a file and the options --chunk-size, --max-depth, --dry-run
Init ==
    /\ mode = "main" /\ pc = "main"
    /\ lines \in Files(MainCorpus)
    /\ chunk_size \in (-1..MaxChunk) \cup {DefaultChunkSize}
    /\ max_depth \in {None, Some(0)}
    /\ dry_run \in BOOLEAN
    /\ sample_size = DefaultSampleSize
    /\ data = None
    /\ Fresh

\* infer_schema(input_file, sample_size, max_depth), then create_table on its result
InitInfer ==
    /\ mode = "infer" /\ pc = "infer"
    /\ lines \in Files(InferCorpus)
    /\ sample_size \in 0..MaxSample
    /\ max_depth \in {None, Some(0)}
    /\ chunk_size = DefaultChunkSize /\ dry_run = FALSE
    /\ data = None
    /\ Fresh

\* process_item and flatten_json, each applied to one record
InitFn ==
    /\ mode = "fn" /\ pc = "fn"
    /\ data \in {Some(r) : r \in FnRecords}
    /\ max_depth \in DepthOptions
    /\ lines = <<>> /\ sample_size = DefaultSampleSize
    /\ chunk_size = DefaultChunkSize /\ dry_run = FALSE
    /\ Fresh

\* main, lines 132-142: the dry run prints the configuration and returns
DryRun ==
    /\ pc = "main" /\ dry_run
    /\ logged' = logged \cup {"dry"}
    /\ pc' = "returned"
    /\ UNCHANGED <<mode, lines, chunk_size, max_depth, dry_run, sample_size, caller, i,
                   schema, walked, attempted, table, row, data, flattened, chunks, sink,
                   inserts, loaded, warned, todo, error>>

\* main, lines 144-148, and process_jsonl's call of infer_schema (line 65)
Start ==
    /\ pc = "main" /\ ~dry_run
    /\ pc' = "infer" /\ caller' = "process_jsonl"
    /\ i' = 0 /\ schema' = <<>> /\ walked' = {} /\ attempted' = {}
    /\ UNCHANGED <<mode, lines, chunk_size, max_depth, dry_run, sample_size, table, row,
                   data, flattened, chunks, sink, inserts, loaded, warned, todo, error,
                   logged>>

\* infer_schema, one turn of the loop over enumerate(f) (lines 33-41)
InferLine ==
    /\ pc = "infer" /\ i < Len(lines) /\ ~SampleExhausted(i, sample_size)
    /\ \E parsed \in {loads(lines[i + 1])} :
       /\ attempted' = attempted \cup {i + 1}
       /\ IF parsed = JSONDecodeError
          THEN UNCHANGED <<schema, walked>>
          ELSE /\ schema' = process_item(schema, parsed, <<>>, 0, max_depth)
               /\ walked' = walked \cup {i + 1}
    /\ i' = i + 1
    /\ UNCHANGED <<mode, pc, lines, chunk_size, max_depth, dry_run, sample_size, caller,
                   table, row, data, flattened, chunks, sink, inserts, loaded, warned,
                   todo, error, logged>>

\* infer_schema leaves its loop (end of file, or the break of line 35) and returns
InferReturn ==
    /\ pc = "infer" /\ (i >= Len(lines) \/ SampleExhausted(i, sample_size))
    /\ IF caller = "main"
       THEN /\ todo' = [n \in 1..Len(schema) |-> schema[n][1]]
            /\ pc' = "report"
       ELSE /\ pc' = "create_table"
            /\ UNCHANGED todo
    /\ UNCHANGED <<mode, lines, chunk_size, max_depth, dry_run, sample_size, caller, i,
                   schema, walked, attempted, table, row, data, flattened, chunks, sink,
                   inserts, loaded, warned, error, logged>>

\* create_table (lines 45-62): the sink runs CREATE TABLE, or rejects it
CreateTable ==
    /\ pc = "create_table"
    /\ \E sink_ok \in BOOLEAN :
         IF sink_ok
         THEN /\ table' = Some(Columns(schema))
              /\ pc' = IF mode = "main" THEN "load" ELSE "returned"
              /\ UNCHANGED error
         ELSE /\ error' = "SinkError"
              /\ pc' = IF mode = "main" THEN "except" ELSE "raised"
              /\ UNCHANGED table
    /\ UNCHANGED <<mode, lines, chunk_size, max_depth, dry_run, sample_size, caller, i,
                   schema, walked, attempted, row, data, flattened, chunks, sink, inserts,
                   loaded, warned, todo, logged>>

\* process_jsonl, one turn of the loop over the csv reader (lines 85-94): the
\* row's first field is decoded, flattened and appended, and a full batch is
\* handed to the sink, which commits it or rejects it.  The batch is the text
\* '\n'.join(chunks); it is kept as the sequence of its lines.
LoadRow ==
    /\ pc = "load" /\ row < Len(lines)
    /\ \E sink_ok \in BOOLEAN :
       \E r \in {csv_row(lines[row + 1])} :
       \E parsed \in {IF r = <<>> THEN JSONDecodeError ELSE loads(r[1])} :
       \E flat \in {IF parsed = JSONDecodeError THEN <<>>
                    ELSE flatten_json(parsed, <<>>, 0, max_depth)} :
       \E chunks1 \in {IF parsed = JSONDecodeError THEN chunks
                       ELSE Append(chunks, dumps(JDict(flat)))} :
         LET appended == parsed # JSONDecodeError
             insert == appended /\ ChunkFull(chunks1, chunk_size)
             exc == IF r = <<>> THEN "IndexError"
                    ELSE IF parsed = JSONDecodeError THEN "JSONDecodeError"
                    ELSE IF insert /\ ~sink_ok THEN "SinkError"
                    ELSE "none"
         IN /\ row' = row + 1
            /\ IF appended
               THEN /\ data' = Some(parsed) /\ flattened' = Some(flat)
                    /\ loaded' = Append(loaded, row + 1)
               ELSE UNCHANGED <<data, flattened, loaded>>
            /\ inserts' = IF insert THEN inserts + 1 ELSE inserts
            /\ sink' = IF insert /\ sink_ok THEN Append(sink, chunks1) ELSE sink
            /\ chunks' = IF insert /\ sink_ok THEN <<>> ELSE chunks1
            /\ IF exc = "none"
               THEN UNCHANGED <<pc, error, warned>>
               ELSE IF Caught(exc)
               THEN /\ warned' = warned \cup {row + 1}
                    /\ UNCHANGED <<pc, error>>
               ELSE /\ error' = exc /\ pc' = "except"
                    /\ UNCHANGED warned
    /\ UNCHANGED <<mode, lines, chunk_size, max_depth, dry_run, sample_size, caller, i,
                   schema, walked, attempted, table, todo, logged>>

\* process_jsonl after the loop (lines 95-96): the last, partial batch is handed
\* to the sink; then main calls infer_schema again (line 150)
LoadEnd ==
    /\ pc = "load" /\ row = Len(lines)
    /\ \E sink_ok \in BOOLEAN :
         LET insert == chunks # <<>> IN
         /\ inserts' = IF insert THEN inserts + 1 ELSE inserts
         /\ sink' = IF insert /\ sink_ok THEN Append(sink, chunks) ELSE sink
         /\ IF insert /\ ~sink_ok
            THEN /\ error' = "SinkError" /\ pc' = "except"
                 /\ UNCHANGED <<caller, i, schema, walked, attempted>>
            ELSE /\ pc' = "infer" /\ caller' = "main"
                 /\ i' = 0 /\ schema' = <<>> /\ walked' = {} /\ attempted' = {}
                 /\ UNCHANGED error
    /\ UNCHANGED <<mode, lines, chunk_size, max_depth, dry_run, sample_size, table, row,
                   data, flattened, chunks, loaded, warned, todo, logged>>

\* main, one turn of the loop over the fields (lines 153-157): generate_report's
\* query and write_report's file succeed, or one of them raises
Report ==
    /\ pc = "report" /\ todo # <<>>
    /\ \E ok \in BOOLEAN :
         IF ok
         THEN /\ todo' = Tail(todo)
              /\ UNCHANGED <<pc, error>>
         ELSE /\ error' = "ReportError" /\ pc' = "except"
              /\ UNCHANGED todo
    /\ UNCHANGED <<mode, lines, chunk_size, max_depth, dry_run, sample_size, caller, i,
                   schema, walked, attempted, table, row, data, flattened, chunks, sink,
                   inserts, loaded, warned, logged>>

\* main: the loop over the fields ends and the try block is left
ReportsDone ==
    /\ pc = "report" /\ todo = <<>>
    /\ pc' = "finally"
    /\ UNCHANGED <<mode, lines, chunk_size, max_depth, dry_run, sample_size, caller, i,
                   schema, walked, attempted, table, row, data, flattened, chunks, sink,
                   inserts, loaded, warned, todo, error, logged>>

\* main, lines 159-160: except Exception logs the error
Except ==
    /\ pc = "except"
    /\ logged' = logged \cup {"error"}
    /\ pc' = "finally"
    /\ UNCHANGED <<mode, lines, chunk_size, max_depth, dry_run, sample_size, caller, i,
                   schema, walked, attempted, table, row, data, flattened, chunks, sink,
                   inserts, loaded, warned, todo, error>>

\* main, lines 161-164: conn.close(), then "Processing complete." is logged
Finally ==
    /\ pc = "finally"
    /\ logged' = logged \cup {"complete"}
    /\ pc' = "returned"
    /\ UNCHANGED <<mode, lines, chunk_size, max_depth, dry_run, sample_size, caller, i,
                   schema, walked, attempted, table, row, data, flattened, chunks, sink,
                   inserts, loaded, warned, todo, error>>

\* process_item applied to the record, on an empty schema
ApplyProcessItem ==
    /\ pc = "fn" /\ walked = {}
    /\ schema' = process_item(<<>>, TheOne(data), <<>>, 0, max_depth)
    /\ walked' = {1}
    /\ UNCHANGED <<mode, pc, lines, chunk_size, max_depth, dry_run, sample_size, caller,
                   i, attempted, table, row, data, flattened, chunks, sink, inserts,
                   loaded, warned, todo, error, logged>>

\* flatten_json applied to the record
ApplyFlatten ==
    /\ pc = "fn" /\ flattened = None
    /\ flattened' = Some(flatten_json(TheOne(data), <<>>, 0, max_depth))
    /\ UNCHANGED <<mode, pc, lines, chunk_size, max_depth, dry_run, sample_size, caller,
                   i, schema, walked, attempted, table, row, data, chunks, sink, inserts,
                   loaded, warned, todo, error, logged>>

Next ==
    \/ DryRun \/ Start \/ InferLine \/ InferReturn \/ CreateTable \/ LoadRow \/ LoadEnd
    \/ Report \/ ReportsDone \/ Except \/ Finally

NextInfer == InferLine \/ InferReturn \/ CreateTable

NextFn == ApplyProcessItem \/ ApplyFlatten

Spec == Init /\ [][Next]_vars

SpecInfer == InitInfer /\ [][NextInfer]_vars

SpecFn == InitFn /\ [][NextFn]_vars

----------------------------------------------------------------------------
(* What the claims speak of *)

MaxNest == 3

Min(m, n) == IF m <= n THEN m ELSE n
CeilDiv(n, c) == (n + c - 1) \div c

\* the line is a valid JSON object
IsRecordLine(line) == loads(line) # JSONDecodeError

RECURSIVE RecordPositions(_, _)
\* the positions n..Len(ls) of the lines that are valid JSON objects, in order
RecordPositions(ls, n) ==
    IF n > Len(ls) THEN <<>>
    ELSE (IF IsRecordLine(ls[n]) THEN <<n>> ELSE <<>>) \o RecordPositions(ls, n + 1)

\* the flat record of a line that is a valid JSON object, as the sink gets it
FlatText(line) == dumps(JDict(flatten_json(loads(line), <<>>, 0, max_depth)))

RECURSIVE SchemaOf(_, _)
\* the schema of a sequence of lines: every line that parses is walked, in order
SchemaOf(ls, md) ==
    IF ls = <<>> THEN <<>>
    ELSE LET s == SchemaOf(SubSeq(ls, 1, Len(ls) - 1), md)
             parsed == loads(ls[Len(ls)])
         IN IF parsed = JSONDecodeError THEN s ELSE process_item(s, parsed, <<>>, 0, md)

\* key paths: sequences of key names
Paths == UNION {[1..n -> {<<"a">>, <<"b">>, <<"c">>, <<"k">>}] : n \in 1..MaxNest}

Missing == [t |-> "missing", v |-> 0]

RECURSIVE ValueAt(_, _)
\* the value a key path leads to, through objects only
ValueAt(x, p) ==
    IF p = <<>> THEN x
    ELSE IF x.t = "dict" /\ HasKey(x.v, Head(p)) THEN ValueAt(Get(x.v, Head(p)), Tail(p))
    ELSE Missing

RECURSIVE DotJoin(_)
\* the dot-joined rendering of a key path
DotJoin(p) == IF Len(p) = 1 THEN p[1] ELSE p[1] \o <<".">> \o DotJoin(Tail(p))

\* the key paths of the non-object leaves of a record
LeafPaths(x) == {p \in Paths : ValueAt(x, p) # Missing /\ ValueAt(x, p).t # "dict"}

\* key k is path p or lies below it
AtOrBelow(k, p) ==
    LET d == DotJoin(p) IN
    k = d \/ (Len(k) > Len(d) /\ SubSeq(k, 1, Len(d) + 1) = d \o <<".">>)

----------------------------------------------------------------------------
(* The claims *)

\* the loading pass of process_jsonl is over: it returned, or a row raised out
\* of its loop
LoadingEnded == mode = "main" /\ (caller = "main" \/ error = "IndexError")

\* C1: with chunk size C >= 1 and a sink that never fails, once the loading pass
\* is over the sink has received exactly ceil(N/C) bulk inserts for the N records
\* parsed and flattened: every insert but the last holds C records, the last
\* holds N mod C (or C when C divides N), and none is issued when N = 0.
C1_BatchBoundary ==
    (LoadingEnded /\ chunk_size >= 1 /\ error # "SinkError") =>
        LET N == Len(loaded)
            C == chunk_size
        IN /\ inserts = CeilDiv(N, C)
           /\ Len(sink) = CeilDiv(N, C)
           /\ \A k \in 1..(Len(sink) - 1) : Len(sink[k]) = C
           /\ sink # <<>> => Len(sink[Len(sink)]) = (IF N % C = 0 THEN C ELSE N % C)

\* C2: in the loading pass no line that is not valid JSON halts the stream: each
\* is skipped with a warning; and every line that is a valid JSON object yields
\* exactly one flat record, delivered to the sink exactly once, in input order.
C2_EveryRecordLoaded ==
    mode = "main" =>
        /\ error # "IndexError"
        /\ caller = "main" =>
              LET recs == RecordPositions(lines, 1) IN
              /\ loaded = recs
              /\ warned = (1..Len(lines)) \ {recs[n] : n \in 1..Len(recs)}
              /\ Flat(sink) = [n \in 1..Len(recs) |-> FlatText(lines[recs[n]])]

\* C7: "Processing complete." is logged only on a run in which no error
\* occurred.
C7_CompleteMeansSuccess == ("complete" \in logged) => error = "none"

\* C8: on a run started with chunk_size <= 0 no table is created, no line is
\* read for inference or loading, and no batch is handed to the sink.
C8_InvalidChunkRejected ==
    (mode = "main" /\ chunk_size <= 0) =>
        (table = None /\ attempted = {} /\ row = 0 /\ inserts = 0)

\* C9: with max_depth unset, every key of the flat record of a record (a line
\* that is a valid JSON object) inside the sampling window is a column of the
\* created table.
C9_FlatKeysAreColumns ==
    (mode = "main" /\ max_depth = None /\ flattened # None /\ table # None
       /\ row <= sample_size /\ IsRecordLine(lines[loaded[Len(loaded)]])) =>
        Keys(TheOne(flattened)) \subseteq Keys(TheOne(table))

KindType(kind) ==
    CASE kind = "str" -> "VARCHAR"
      [] kind = "int" -> "INTEGER"
      [] kind = "float" -> "FLOAT"
      [] kind = "bool" -> "BOOLEAN"
      [] kind = "NoneType" -> "VARCHAR"
      [] kind = "array" -> "VARCHAR"

\* the lines with the first w of them rearranged by the permutation q of 1..w
Permuted(ls, w, q) == [n \in 1..Len(ls) |-> IF n <= w THEN ls[q[n]] ELSE ls[n]]

\* the storage type of every column, whatever the column order
ColumnTypes(cols) == {cols[n] : n \in 1..Len(cols)}

\* C5: create_table gives a column whose path has two or more observed kinds
\* the type VARCHAR and a column with one observed kind the type of the fixed
\* table, and the column types are the same for every permutation of the sample
\* lines.
C5_ConflictToVarchar ==
    (mode = "infer" /\ table # None) =>
        LET cols == TheOne(table)
            w == Min(sample_size, Len(lines))
        IN /\ Len(cols) = Len(schema)
           /\ \A n \in 1..Len(cols) :
                /\ cols[n][1] = schema[n][1]
                /\ Cardinality(schema[n][2]) >= 2 => cols[n][2] = "VARCHAR"
                /\ Cardinality(schema[n][2]) = 1 => cols[n][2] = KindType(TheOne(schema[n][2]))
           /\ \A q \in Permutations(1..w) :
                ColumnTypes(Columns(SchemaOf(SubSeq(Permuted(lines, w, q), 1, w), max_depth)))
                    = ColumnTypes(cols)

\* a table was created from a sample in which path a was seen as Integer and as
\* Float
C5_Witness ==
    /\ mode = "infer" /\ table # None
    /\ \E n \in 1..Len(schema) : schema[n][2] = {"int", "float"}
    /\ Cardinality(walked) >= 2

\* the key paths of depth d (top-level keys being depth 0) that lead to an object
ObjectPathsAt(x, d) == {p \in Paths : Len(p) = d + 1 /\ ValueAt(x, p).t = "dict"}

\* C4: under max_depth = d, for an object nested at depth d+1 (the value of a
\* key path of depth d), process_item records no path at or below it, and
\* flatten_json produces exactly one entry at or below it: the JSON text of the
\* whole object, keyed by the dot-joined path of depth d, with no trailing
\* separator.
C4_DepthAsymmetry ==
    (mode = "fn" /\ max_depth # None) =>
        \A p \in ObjectPathsAt(TheOne(data), TheOne(max_depth)) :
            /\ walked # {} => \A k \in Keys(schema) : ~AtOrBelow(k, p)
            /\ flattened # None =>
                 LET f == TheOne(flattened)
                     at == {n \in 1..Len(f) : AtOrBelow(f[n][1], p)}
                 IN /\ Cardinality(at) = 1
                    /\ f[TheOne(at)] = <<DotJoin(p), JStr(dumps(ValueAt(TheOne(data), p)))>>

\* both functions were applied under max_depth = 1 to {"a": {"b": {"c": 1}}}
C4_Witness ==
    /\ mode = "fn" /\ max_depth = Some(1)
    /\ data = Some(Obj1(<<"a">>, Obj1(<<"b">>, Obj1(<<"c">>, JInt(1)))))
    /\ walked # {} /\ schema = <<>>
    /\ flattened = Some(<< <<<<"a", ".", "b">>, JStr(dumps(Obj1(<<"c">>, JInt(1))))>> >>)

\* C6: with max_depth unset, the keys of flatten_json's result are exactly the
\* dot-joined paths of the record's non-object leaves; a scalar is copied
\* unchanged and an array (empty, of scalars or of objects) becomes the text of
\* its JSON form; process_item records for a scalar leaf its own kind and for an
\* empty or non-object-first array the kind array.
C6_FlattenLeaves ==
    (mode = "fn" /\ max_depth = None) =>
        LET rec == TheOne(data)
            leaves == LeafPaths(rec)
        IN /\ flattened # None =>
                LET f == TheOne(flattened) IN
                /\ Keys(f) = {DotJoin(p) : p \in leaves}
                /\ Len(f) = Cardinality(leaves)
                /\ \A p \in leaves :
                     Get(f, DotJoin(p)) =
                        (IF ValueAt(rec, p).t = "list" THEN JStr(dumps(ValueAt(rec, p)))
                         ELSE ValueAt(rec, p))
           /\ walked # {} =>
                \A p \in leaves :
                    LET x == ValueAt(rec, p) IN
                    /\ x.t # "list" =>
                         HasKey(schema, DotJoin(p)) /\ Get(schema, DotJoin(p)) = {x.t}
                    /\ (x.t = "list" /\ (x.v = <<>> \/ x.v[1].t # "dict")) =>
                         HasKey(schema, DotJoin(p)) /\ Get(schema, DotJoin(p)) = {"array"}

\* both functions were applied to {"a": {"b": 1}, "c": [1, 2, 3]}
C6_Witness ==
    /\ mode = "fn" /\ max_depth = None
    /\ data = Some(Obj2(<<"a">>, Obj1(<<"b">>, JInt(1)),
                        <<"c">>, JList(<<JInt(1), JInt(2), JInt(3)>>)))
    /\ flattened = Some(<< <<<<"a", ".", "b">>, JInt(1)>>,
                           <<<<"c">>, JStr(<<"[", "1", ",", " ", "2", ",", " ", "3", "]">>)>> >>)
    /\ schema = << <<<<"a", ".", "b">>, {"int"}>>, <<<<"c">>, {"array"}>> >>

\* the sink rejected a bulk insert
InsertRejected == inserts > Len(sink)

\* C10: once the sink has rejected a bulk insert, the insert is not retried and
\* no other is issued, no further row is read, the batches committed before stay
\* as they are, and the error is main's: it is in main's handler, or logged.
C10_SinkErrorAborts ==
    /\ [](InsertRejected =>
            /\ inserts = Len(sink) + 1
            /\ error = "SinkError"
            /\ pc \in {"except", "finally", "returned"}
            /\ pc # "except" => "error" \in logged)
    /\ [][InsertRejected' => sink' = sink]_vars
    /\ [][InsertRejected => (row' = row /\ inserts' = inserts /\ chunks' = chunks)]_vars

\* main returned after the sink rejected the second batch, with a row still
\* unread
C10_Witness ==
    /\ InsertRejected /\ Len(sink) = 1 /\ pc = "returned"
    /\ row < Len(lines) /\ "error" \in logged

====
